---- MODULE Spec2Model ----
(***************************************************************************)
(* Model of lumichat-backend/rasa-bot/actions/actions.py: the four custom  *)
(* actions (numbered-response selector with crisis safety override,        *)
(* reflective support, analyze issue, give coping) and the mood            *)
(* canonicalizer they share.  Python strings are TLA+ strings; the string  *)
(* built-ins the code uses (lower, in, startswith, replace, split) are     *)
(* computed character by character.                                        *)
(***************************************************************************)
EXTENDS Integers, Sequences, FiniteSets, TLC

VARIABLES
    latest_message,  \* tracker.latest_message: intent name, text, metadata language
    slots,           \* tracker slots (only "mood" is read or written here)
    domain,          \* the domain dict handed to run(): its "responses" entry
    action,          \* name() of the handler that ran last on latest_message
    dispatched,      \* messages the dispatcher collected during that run
    events,          \* the event list that run returned
    raised,          \* TRUE when that run ended in an exception
    chain,           \* successive results of _canonical_mood_from_intent
    call,            \* the slot-parser call made last: function, argument, clock, collaborator
    ret,             \* what that call returned
    other            \* a second conversation served by the same process: its tracker and last run

vars == <<latest_message, slots, domain, action, dispatched, events, raised, chain,
          call, ret, other>>

----------------------------------------------------------------------------
(* Python values *)

\* Python None and a present value: an optional is <<>> or <<v>>.
None == <<>>
Some(v) == <<v>>

\* Python `x or ""` on an optional string.
OrEmpty(o) == IF o = None THEN "" ELSE o[1]

\* Python truthiness of an optional string: None and "" are falsy.
Truthy(o) == o # None /\ o[1] # ""

\* No slot parser has been called yet.
\* A conversation nothing has happened in yet.
FreshConversation ==
    [action |-> "none",
     latest_message |-> [intent |-> None, text |-> None, lang |-> None],
     slots |-> [mood |-> None], dispatched |-> <<>>, events |-> <<>>, raised |-> FALSE]

NoCall == [fn |-> "none"]
NoReturn == [raised |-> FALSE, value |-> None, fuzzy_called |-> FALSE]

----------------------------------------------------------------------------
(* Python string built-ins *)

UPPER == "ABCDEFGHIJKLMNOPQRSTUVWXYZ"
LOWER == "abcdefghijklmnopqrstuvwxyz"

Char(s, i) == SubSeq(s, i, i)

\* s[from:]
Drop(s, n) == SubSeq(s, n + 1, Len(s))

\* The lower-case letter of each upper-case ASCII letter.
ToLower ==
    [c \in {Char(UPPER, i) : i \in 1..Len(UPPER)} |->
        Char(LOWER, CHOOSE i \in 1..Len(UPPER) : Char(UPPER, i) = c)]

\* str.lower() on one character (ASCII).
LowerChar(c) == IF c \in DOMAIN ToLower THEN ToLower[c] ELSE c

RECURSIVE Lower(_)
\* str.lower()
Lower(s) == IF Len(s) = 0 THEN "" ELSE LowerChar(Char(s, 1)) \o Lower(Drop(s, 1))

\* s.startswith(p)
StartsWith(s, p) == Len(p) <= Len(s) /\ SubSeq(s, 1, Len(p)) = p

\* s.find(k) + 1: the 1-based index of the first occurrence of k in s, 0 if none.
Find(s, k) ==
    LET hits == {i \in 1..(Len(s) - Len(k) + 1) : SubSeq(s, i, i + Len(k) - 1) = k}
    IN  IF hits = {} THEN 0 ELSE CHOOSE i \in hits : \A j \in hits : i <= j

\* k in s
Contains(s, k) == Find(s, k) # 0

RECURSIVE Replace(_, _, _)
\* s.replace(old, new): every non-overlapping occurrence, left to right.
Replace(s, old, new) ==
    LET i == Find(s, old)
    IN  IF i = 0 THEN s
        ELSE SubSeq(s, 1, i - 1) \o new \o Replace(Drop(s, i + Len(old) - 1), old, new)

\* s.split(sep, 1) when sep occurs in s: the parts left and right of the first sep.
SplitOnce(s, sep) ==
    LET i == Find(s, sep)
    IN  <<SubSeq(s, 1, i - 1), Drop(s, i + Len(sep) - 1)>>

----------------------------------------------------------------------------
(* Dispatcher messages and tracker events *)

\* dispatcher.utter_message(response=key)
Response(key) == [kind |-> "response", val |-> key]
\* dispatcher.utter_message(text=t)
Text(t) == [kind |-> "text", val |-> t]
\* SlotSet(name, value)
SlotSet(name, value) == [event |-> "slot", name |-> name, value |-> value]

\* What a run leaves behind: the collected messages, the returned events, and
\* whether it ended in an exception (then nothing was returned).
Returned(msgs, evs) == [messages |-> msgs, events |-> evs, raised |-> FALSE]
Raised(msgs) == [messages |-> msgs, events |-> <<>>, raised |-> TRUE]

----------------------------------------------------------------------------
(* The domain dict: "responses" missing, None, or a dict with these keys *)

DomainMissing == [kind |-> "missing", keys |-> {}]
DomainNull == [kind |-> "null", keys |-> {}]
DomainDict(keys) == [kind |-> "dict", keys |-> keys]

\* domain.get("responses") or {} : the keys of the resulting dict
ResponsesOrEmpty(dom) == IF dom.kind = "dict" THEN dom.keys ELSE {}

\* "responses" in domain
HasResponses(dom) == dom.kind # "missing"

----------------------------------------------------------------------------
(* SECTION A: numbered response selector with crisis safety *)

CRISIS_KEYWORDS ==
    {"suicide", "kill myself", "end my life", "self harm", "self-harm",
     "i want to die", "i want to end it", "hurt myself"}

SAFETY_TEXT ==
    "I'm concerned for your safety. If you're in immediate danger, please call local emergency services now."

GENERIC_TEXT == "I'm here with you. Tell me a bit more about what you're feeling."

\* (tracker.latest_message.get("intent") or {}).get("name", "") or ""
_latest_intent_name_or_mood(tracker) ==
    IF Truthy(tracker.latest_message.intent) THEN tracker.latest_message.intent[1]
    ELSE OrEmpty(tracker.slots.mood)

_latest_intent_name(tracker) == OrEmpty(tracker.latest_message.intent)

\* Variant: the keyword test without lower().
_has_crisis_terms_case_sensitive(text) ==
    \E k \in CRISIS_KEYWORDS : Contains(OrEmpty(text), k)

_has_crisis_terms(text) ==
    LET t == Lower(OrEmpty(text))
    IN  \E k \in CRISIS_KEYWORDS : Contains(t, k)

\* The safety override's condition: the intent or the keywords.
SafetyOverride(latest_intent, user_text) ==
    latest_intent = "safety_critical" \/ _has_crisis_terms(user_text)

\* Variant: without a crisis template, the override tries the intent's own template.
CrisisReply_intent_template(dom) ==
    IF "utter_crisis" \in ResponsesOrEmpty(dom)
    THEN Response("utter_crisis")
    ELSE IF "utter_safety_critical" \in ResponsesOrEmpty(dom)
         THEN Response("utter_safety_critical")
         ELSE Text(SAFETY_TEXT)

\* The override's reply: the crisis template if the domain defines it, else the
\* hard-coded text.
CrisisReply(dom) ==
    IF "utter_crisis" \in ResponsesOrEmpty(dom)
    THEN Response("utter_crisis")
    ELSE Text(SAFETY_TEXT)

\* Variant: the intent split at its last "/" (rsplit) instead of its first.
IntentBase_last_slash(latest_intent) ==
    LET hits == {i \in 1..Len(latest_intent) : Char(latest_intent, i) = "/"}
    IN  IF hits = {} THEN latest_intent
        ELSE SubSeq(latest_intent, 1, (CHOOSE i \in hits : \A j \in hits : j <= i) - 1)

\* base of <base>/<suffix> (split at the first "/"), or the whole intent.
IntentBase(latest_intent) ==
    IF Contains(latest_intent, "/")
    THEN SplitOnce(latest_intent, "/")[1]
    ELSE latest_intent

\* utter_<base>/<suffix> or utter_<base>
IntentKey(latest_intent) ==
    IF Contains(latest_intent, "/")
    THEN "utter_" \o SplitOnce(latest_intent, "/")[1] \o "/" \o SplitOnce(latest_intent, "/")[2]
    ELSE "utter_" \o latest_intent

TemplateReply_safety_fallback(key, base, responses) ==
    IF key \in responses
    THEN Response(key)
    ELSE IF ("utter_" \o base) \in responses
         THEN Response("utter_" \o base)
         ELSE Text(SAFETY_TEXT)

\* Prefer the numbered template; fall back to the parent; then the generic text.
TemplateReply(key, base, responses) ==
    IF key \in responses
    THEN Response(key)
    ELSE IF ("utter_" \o base) \in responses
         THEN Response("utter_" \o base)
         ELSE Text(GENERIC_TEXT)

\* Variant: no generic text when neither template exists.
ActionSelectNumberedResponse_run_silent(tracker, dom) ==
    LET latest_intent == OrEmpty(tracker.latest_message.intent)
        reply == TemplateReply(IntentKey(latest_intent), IntentBase(latest_intent),
                               ResponsesOrEmpty(dom))
    IN  IF SafetyOverride(latest_intent, tracker.latest_message.text)
        THEN Returned(<<CrisisReply(dom)>>, <<>>)
        ELSE IF reply = Text(GENERIC_TEXT)
             THEN Returned(<<>>, <<>>)
             ELSE Returned(<<reply>>, <<>>)

\* Variant: domain["responses"] indexed and searched without `.get(...) or {}`.
ActionSelectNumberedResponse_run_indexing(tracker, dom) ==
    LET latest_intent == OrEmpty(tracker.latest_message.intent)
    IN  IF dom.kind # "dict"
        THEN Raised(<<>>)
        ELSE IF SafetyOverride(latest_intent, tracker.latest_message.text)
             THEN Returned(<<CrisisReply(dom)>>, <<>>)
             ELSE Returned(<<TemplateReply(IntentKey(latest_intent), IntentBase(latest_intent),
                                           dom.keys)>>, <<>>)

ActionSelectNumberedResponse_run(tracker, dom) ==
    LET latest_intent == _latest_intent_name(tracker)
        user_text == tracker.latest_message.text
    IN  IF SafetyOverride(latest_intent, user_text)
        THEN Returned(<<CrisisReply(dom)>>, <<>>)
        ELSE Returned(<<TemplateReply(IntentKey(latest_intent), IntentBase(latest_intent),
                                      ResponsesOrEmpty(dom))>>, <<>>)

----------------------------------------------------------------------------
(* SECTION B: language helpers and reflective support *)

\* str(((meta.get("lumichat") or {}).get("lang") or "en")).lower()
\* meta is the optional language tag carried in the message metadata.
_lang_as_written(meta) == IF Truthy(meta) THEN meta[1] ELSE "en"

_lang(meta) == Lower(IF Truthy(meta) THEN meta[1] ELSE "en")

_one(lang, en, ceb) == IF lang = "ceb" THEN ceb ELSE en

\* The five bilingual pairs of ActionReflectiveSupport.run (the typographic
\* apostrophes of the source are written ').
REFLECT_HAPPINESS ==
    <<"I'm glad to hear you're feeling good. Anything you want to share?",
      "Maayo kaayo nga nalingaw ka. Aduna bay gusto nimo ipa-ambit?">>
REFLECT_SADNESS ==
    <<"I'm sorry you're feeling down. Do you want to talk about what happened?",
      "Pasayloa ko nga medyo mingaw imong gibati. Gusto ka mosulti unsay nahitabo?">>
REFLECT_ANXIETY ==
    <<"That sounds stressful. Let's take it one step at a time. What's worrying you most?",
      "Murag lisod gyud na. Hinay-hinay ta. Unsay pinakadako nimong kabalakan?">>
REFLECT_STRESS ==
    <<"Thanks for sharing. Would a short breathing tip or scheduling a counselor help?",
      "Salamat sa pag-ambit. Gusto ka og mubo nga breathing tip o magpa-iskedyul sa counselor?">>
REFLECT_OTHER ==
    <<"I'm here for you. Tell me more so I can help better.",
      "Anaa ra ko para nimo. Sultihi ko og dugang para mas matabangan tika.">>

ActionReflectiveSupport_run(tracker, dom) ==
    LET intent == tracker.latest_message.intent   \* may be None: no `or ""` here
        lang == _lang(tracker.latest_message.lang)
        pair == IF intent = Some("express_happiness") THEN REFLECT_HAPPINESS
                ELSE IF intent = Some("express_sadness") THEN REFLECT_SADNESS
                ELSE IF intent = Some("express_anxiety") THEN REFLECT_ANXIETY
                ELSE IF intent = Some("express_stress") THEN REFLECT_STRESS
                ELSE REFLECT_OTHER
        msg == _one(lang, pair[1], pair[2])
    IN  Returned(<<Text(msg)>>, <<>>)

----------------------------------------------------------------------------
(* Mood canonicalizer *)

MOOD_TO_SUPPORT_UTTER ==
    ("anxiety" :> "utter_support_anxiety") @@
    ("depression" :> "utter_support_depression") @@
    ("stress_burnout" :> "utter_support_stress_burnout") @@
    ("anger" :> "utter_support_anger") @@
    ("addiction" :> "utter_support_addiction") @@
    ("self_esteem_body" :> "utter_support_self_esteem_body") @@
    ("grief_loss" :> "utter_support_grief_loss") @@
    ("sleep_insomnia" :> "utter_support_sleep_insomnia") @@
    ("loneliness_isolation" :> "utter_support_loneliness_isolation") @@
    ("trauma_ptsd" :> "utter_support_trauma_ptsd") @@
    ("relationship_romance" :> "utter_support_relationship_romance") @@
    ("school_academic" :> "utter_support_school_academic")

MOOD_TO_COPING_UTTER ==
    ("anxiety" :> "utter_coping_anxiety") @@
    ("depression" :> "utter_coping_depression") @@
    ("stress_burnout" :> "utter_coping_stress_burnout") @@
    ("anger" :> "utter_coping_anger") @@
    ("addiction" :> "utter_coping_addiction") @@
    ("self_esteem_body" :> "utter_coping_self_esteem_body") @@
    ("grief_loss" :> "utter_coping_grief_loss") @@
    ("sleep_insomnia" :> "utter_coping_sleep_insomnia") @@
    ("loneliness_isolation" :> "utter_coping_loneliness_isolation") @@
    ("trauma_ptsd" :> "utter_coping_trauma_ptsd") @@
    ("relationship_romance" :> "utter_coping_relationship_romance") @@
    ("school_academic" :> "utter_coping_school_academic")

\* The renaming chain applied to an express_ intent's remainder.
ExpressRename(key) ==
    LET k1 == IF key = "sadness" THEN "depression" ELSE key
        k2 == IF k1 = "stress" THEN "stress_burnout" ELSE k1
        k3 == IF k2 = "sleep" THEN "sleep_insomnia" ELSE k2
        k4 == IF k3 = "relationship" THEN "relationship_romance" ELSE k3
        k5 == IF k4 = "low_self_esteem" THEN "self_esteem_body" ELSE k4
    IN  k5

\* [a-z_]
IsLowerOrUnderscore(c) == c = "_" \/ \E i \in 1..Len(LOWER) : Char(LOWER, i) = c

\* The tail (?:_p\\d+)$ of the raw-string pattern: "_p", one backslash, one or
\* more letters d, then the end of the string or a final newline.
VariantTail(r) ==
    LET body == IF Len(r) > 0 /\ Char(r, Len(r)) = "\n"
                THEN SubSeq(r, 4, Len(r) - 1) ELSE Drop(r, 3)
    IN  /\ StartsWith(r, "_p\\")
        /\ Len(body) >= 1
        /\ \A j \in 1..Len(body) : Char(body, j) = "d"

\* re.match(r"([a-z_]+?)(?:_p\\d+)$", s): the lengths of group 1 that match.
VariantMatch(s) ==
    {i \in 1..Len(s) : /\ \A j \in 1..i : IsLowerOrUnderscore(Char(s, j))
                       /\ VariantTail(Drop(s, i))}

\* The aliases dict, in insertion order.
aliases ==
    << <<"stress", "stress_burnout">>, <<"burnout", "stress_burnout">>,
       <<"relationship", "relationship_romance">>, <<"romance", "relationship_romance">>,
       <<"selfesteem", "self_esteem_body">>, <<"self_esteem", "self_esteem_body">>,
       <<"bodyimage", "self_esteem_body">>,
       <<"grief", "grief_loss">>, <<"loneliness", "loneliness_isolation">>,
       <<"trauma", "trauma_ptsd">>, <<"ptsd", "trauma_ptsd">>,
       <<"sleep", "sleep_insomnia">>, <<"insomnia", "sleep_insomnia">>,
       <<"school", "school_academic">>, <<"sad", "depression">> >>

_canonical_mood_from_intent(intent_name) ==
    IF StartsWith(intent_name, "express_")
    THEN ExpressRename(Replace(intent_name, "express_", ""))
    ELSE LET m == VariantMatch(intent_name)
             base == IF m # {}
                     THEN SubSeq(intent_name, 1, CHOOSE i \in m : \A j \in m : i <= j)
                     ELSE intent_name
             hits == {i \in 1..Len(aliases) : StartsWith(base, aliases[i][1])}
         IN  IF hits # {}
             THEN aliases[CHOOSE i \in hits : \A j \in hits : i <= j][2]
             ELSE base

----------------------------------------------------------------------------
(* Analyze issue and give coping *)

SUPPORT_GENERIC_TEXT == "Thanks for sharing. I'm here to listen and help with next steps."

COPING_GENERIC_TEXT ==
    "Here are some general steps: breathe slowly, ground with your senses, and take one small helpful action."

ActionAnalyzeIssue_run(tracker, dom) ==
    LET intent == OrEmpty(tracker.latest_message.intent)
        mood == _canonical_mood_from_intent(intent)
        first == IF mood \in DOMAIN MOOD_TO_SUPPORT_UTTER
                 THEN Response(MOOD_TO_SUPPORT_UTTER[mood])
                 ELSE Text(SUPPORT_GENERIC_TEXT)
    IN  \* "responses" in domain and "utter_offer_coping" in domain["responses"]
        IF dom.kind = "null"
        THEN Raised(<<first>>)             \* `in None` is a TypeError
        ELSE IF HasResponses(dom) /\ "utter_offer_coping" \in dom.keys
             THEN Returned(<<first, Response("utter_offer_coping")>>, <<SlotSet("mood", mood)>>)
             ELSE Returned(<<first>>, <<SlotSet("mood", mood)>>)

ActionGiveCoping_run_intent_first(tracker, dom) ==
    LET intent_name == OrEmpty(tracker.latest_message.intent)
        slot == tracker.slots.mood
        canon == _canonical_mood_from_intent(intent_name)
        mood == IF canon # "" THEN canon ELSE OrEmpty(slot)
        known == mood \in DOMAIN MOOD_TO_COPING_UTTER
        first == IF known /\ HasResponses(dom) /\ MOOD_TO_COPING_UTTER[mood] \in dom.keys
                 THEN Response(MOOD_TO_COPING_UTTER[mood])
                 ELSE Text(COPING_GENERIC_TEXT)
    IN  IF dom.kind = "null"
        THEN Raised(IF known THEN <<>> ELSE <<first>>)
        ELSE IF HasResponses(dom) /\ "utter_offer_referral" \in dom.keys
             THEN Returned(<<first, Response("utter_offer_referral")>>, <<>>)
             ELSE IF HasResponses(dom) /\ "utter_ask_book_counselor" \in dom.keys
                  THEN Returned(<<first, Response("utter_ask_book_counselor")>>, <<>>)
                  ELSE Returned(<<first>>, <<>>)

ActionGiveCoping_run(tracker, dom) ==
    LET intent_name == OrEmpty(tracker.latest_message.intent)
        slot == tracker.slots.mood
        mood == IF Truthy(slot) THEN slot[1] ELSE _canonical_mood_from_intent(intent_name)
        known == mood \in DOMAIN MOOD_TO_COPING_UTTER
        first == IF known /\ HasResponses(dom) /\ MOOD_TO_COPING_UTTER[mood] \in dom.keys
                 THEN Response(MOOD_TO_COPING_UTTER[mood])
                 ELSE Text(COPING_GENERIC_TEXT)
    IN  IF known /\ dom.kind = "null"
        THEN Raised(<<>>)                  \* coping_utter in None
        ELSE IF dom.kind = "null"
             THEN Raised(<<first>>)        \* "utter_offer_referral" in None
             ELSE IF HasResponses(dom) /\ "utter_offer_referral" \in dom.keys
                  THEN Returned(<<first, Response("utter_offer_referral")>>, <<>>)
                  ELSE IF HasResponses(dom) /\ "utter_ask_book_counselor" \in dom.keys
                       THEN Returned(<<first, Response("utter_ask_book_counselor")>>, <<>>)
                       ELSE Returned(<<first>>, <<>>)

----------------------------------------------------------------------------
(* SECTION B: slot parsers -- numbers, whitespace and the calendar *)

DIGITS == "0123456789"

\* \d (ASCII)
IsDigit(c) == \E i \in 1..Len(DIGITS) : Char(DIGITS, i) = c

\* [a-z]
IsLowerLetter(c) == \E i \in 1..Len(LOWER) : Char(LOWER, i) = c

\* \s, and what str.strip() removes
IsSpace(c) == c \in {" ", "\t", "\n"}

\* \w (ASCII)
IsWordChar(c) ==
    \/ IsDigit(c)
    \/ IsLowerLetter(c)
    \/ c \in DOMAIN ToLower
    \/ c = "_"

AllDigits(s) == \A i \in 1..Len(s) : IsDigit(Char(s, i))

DigitValue(c) == (CHOOSE i \in 1..Len(DIGITS) : Char(DIGITS, i) = c) - 1

RECURSIVE ParseInt(_)
\* int(s) for a string of digits
ParseInt(s) ==
    IF Len(s) = 0 THEN 0
    ELSE 10 * ParseInt(SubSeq(s, 1, Len(s) - 1)) + DigitValue(Char(s, Len(s)))

RECURSIVE IntToStr(_)
\* str(n) for n >= 0
IntToStr(n) ==
    IF n < 10 THEN Char(DIGITS, n + 1)
    ELSE IntToStr(n \div 10) \o Char(DIGITS, (n % 10) + 1)

RECURSIVE ZeroPad(_, _)
\* f"{n:0{w}d}" for n >= 0
ZeroPad(n, w) ==
    LET t == IntToStr(n)
    IN  IF Len(t) >= w THEN t ELSE "0" \o ZeroPad(n, w - 1)

RECURSIVE LStrip(_)
LStrip(s) == IF Len(s) > 0 /\ IsSpace(Char(s, 1)) THEN LStrip(Drop(s, 1)) ELSE s

RECURSIVE RStrip(_)
RStrip(s) ==
    IF Len(s) > 0 /\ IsSpace(Char(s, Len(s)))
    THEN RStrip(SubSeq(s, 1, Len(s) - 1)) ELSE s

\* str.strip()
Strip(s) == RStrip(LStrip(s))

\* A calendar date (datetime.date) and a wall-clock time.
Date(y, m, d) == [year |-> y, month |-> m, day |-> d]

IsLeap(y) == (y % 4 = 0 /\ y % 100 # 0) \/ y % 400 = 0

DaysInMonth(y, m) ==
    IF m = 2 THEN (IF IsLeap(y) THEN 29 ELSE 28)
    ELSE IF m \in {4, 6, 9, 11} THEN 30 ELSE 31

NextDay(dt) ==
    IF dt.day < DaysInMonth(dt.year, dt.month) THEN Date(dt.year, dt.month, dt.day + 1)
    ELSE IF dt.month < 12 THEN Date(dt.year, dt.month + 1, 1)
    ELSE Date(dt.year + 1, 1, 1)

RECURSIVE AddDays(_, _)
\* dt + timedelta(days=n)
AddDays(dt, n) == IF n = 0 THEN dt ELSE AddDays(NextDay(dt), n - 1)

\* date.isoformat()
IsoFormat(dt) == ZeroPad(dt.year, 4) \o "-" \o ZeroPad(dt.month, 2) \o "-" \o ZeroPad(dt.day, 2)

----------------------------------------------------------------------------
(* SECTION B: slot parsers -- dates *)

\* CEB_DATE_MAP, in insertion order.
CEB_DATE_MAP ==
    << <<"ugma", "tomorrow">>, <<"karon", "today">>,
       <<"unya", "later">>, <<"sunod semana", "next week">> >>

EN_MISSPELLINGS ==
    ("tommorow" :> "tomorrow") @@ ("tomorow" :> "tomorrow") @@ ("tmrw" :> "tomorrow")

\* CEB_TIME_KEYWORDS, in insertion order.
CEB_TIME_KEYWORDS ==
    << <<"buntag", "morning">>, <<"hapon", "afternoon">>, <<"udto", "noon">>,
       <<"gabii", "evening">>, <<"karon", "now">> >>

RECURSIVE ReplaceEach(_, _, _)
\* for k, v in table.items(): if k in t: t = t.replace(k, v)   (entries i..)
ReplaceEach(t, table, i) ==
    IF i > Len(table) THEN t
    ELSE ReplaceEach(IF Contains(t, table[i][1])
                     THEN Replace(t, table[i][1], table[i][2]) ELSE t,
                     table, i + 1)

normalize_date_text_no_misspellings(text) ==
    ReplaceEach(Lower(Strip(OrEmpty(text))), CEB_DATE_MAP, 1)

normalize_date_text(text) ==
    LET t0 == Lower(Strip(OrEmpty(text)))
        t1 == IF t0 \in DOMAIN EN_MISSPELLINGS THEN EN_MISSPELLINGS[t0] ELSE t0
    IN  ReplaceEach(t1, CEB_DATE_MAP, 1)

\* What a parser call leaves behind: its value (None for "no match"), whether
\* it ended in an exception, and whether it called dateparser.parse.
Ret(value, called) == [raised |-> FALSE, value |-> value, fuzzy_called |-> called]
RetRaised == [raised |-> TRUE, value |-> None, fuzzy_called |-> TRUE]

\* The optional dateutil collaborator on one call: not installed, raising,
\* returning a falsy value, or returning a datetime.
FuzzyAbsent == [kind |-> "absent", date |-> None]
FuzzyRaises == [kind |-> "raises", date |-> None]
FuzzyNull == [kind |-> "null", date |-> None]
FuzzyDate(dt) == [kind |-> "date", date |-> Some(dt)]

\* \b at offset p of s (between characters p and p + 1)
WordBoundary(s, p) ==
    (p >= 1 /\ IsWordChar(Char(s, p))) # (p < Len(s) /\ IsWordChar(Char(s, p + 1)))

\* u matches \d{1,2}[/-]\d{1,2}(?:[/-]\d{2,4})?
InNumericDate(u) ==
    \E a \in 1..2, b \in 1..2 :
        /\ Len(u) >= a + 1 + b
        /\ AllDigits(SubSeq(u, 1, a))
        /\ Char(u, a + 1) \in {"/", "-"}
        /\ AllDigits(SubSeq(u, a + 2, a + 1 + b))
        /\ \/ Len(u) = a + 1 + b
           \/ /\ Len(u) - (a + b + 2) \in 2..4
              /\ Char(u, a + b + 2) \in {"/", "-"}
              /\ AllDigits(Drop(u, a + b + 2))

\* u matches [a-z]{3,}\s+\d{1,2}
InWordAndDay(u) ==
    \E n \in 3..Len(u), d \in 1..2 :
        /\ Len(u) - n - d >= 1
        /\ \A i \in 1..n : IsLowerLetter(Char(u, i))
        /\ \A i \in (n + 1)..(Len(u) - d) : IsSpace(Char(u, i))
        /\ AllDigits(Drop(u, Len(u) - d))

DateLike_numeric_only(s) ==
    \E i \in 1..Len(s), j \in 1..Len(s) :
        /\ i <= j
        /\ InNumericDate(SubSeq(s, i, j))
        /\ WordBoundary(s, i - 1)
        /\ WordBoundary(s, j)

\* re.search(r"\b(?:\d{1,2}[/-]\d{1,2}(?:[/-]\d{2,4})?|[a-z]{3,}\s+\d{1,2})\b", s)
DateLike(s) ==
    \E i \in 1..Len(s) : \E j \in i..Len(s) :
        /\ WordBoundary(s, i - 1)
        /\ WordBoundary(s, j)
        /\ InNumericDate(SubSeq(s, i, j)) \/ InWordAndDay(SubSeq(s, i, j))

\* Variant: the collaborator called without try/except.
parse_date_unguarded(value, today, fuzzy) ==
    LET s == normalize_date_text(value)
    IN  IF s \in {"today", "now"} THEN Ret(Some(IsoFormat(today)), FALSE)
        ELSE IF s = "tomorrow" THEN Ret(Some(IsoFormat(AddDays(today, 1))), FALSE)
        ELSE IF s = "nextweek" THEN Ret(Some(IsoFormat(AddDays(today, 7))), FALSE)
        ELSE IF fuzzy.kind = "raises" THEN RetRaised
        ELSE IF fuzzy.kind = "date" THEN Ret(Some(IsoFormat(fuzzy.date[1])), TRUE)
        ELSE IF DateLike(s) THEN Ret(Some(s), fuzzy.kind # "absent")
        ELSE Ret(None, fuzzy.kind # "absent")

\* parse_date, with datetime.now().date() = today and the collaborator's
\* behaviour on this call = fuzzy.
parse_date(value, today, fuzzy) ==
    LET s == normalize_date_text(value)
    IN  IF s \in {"today", "now"} THEN Ret(Some(IsoFormat(today)), FALSE)
        ELSE IF s = "tomorrow" THEN Ret(Some(IsoFormat(AddDays(today, 1))), FALSE)
        ELSE IF s = "nextweek" THEN Ret(Some(IsoFormat(AddDays(today, 7))), FALSE)
        ELSE IF fuzzy.kind = "date" THEN Ret(Some(IsoFormat(fuzzy.date[1])), TRUE)
        ELSE IF DateLike(s) THEN Ret(Some(s), fuzzy.kind # "absent")
        ELSE Ret(None, fuzzy.kind # "absent")

----------------------------------------------------------------------------
(* SECTION B: slot parsers -- times and yes/no *)

RECURSIVE KeywordEach_reversed(_, _, _)
KeywordEach_reversed(t, table, i) ==
    IF i > Len(table) THEN t
    ELSE KeywordEach_reversed(IF Contains(t, table[Len(table) + 1 - i][1])
                              THEN table[Len(table) + 1 - i][2] ELSE t, table, i + 1)

RECURSIVE KeywordEach(_, _, _)
\* for k, v in table.items(): if k in t: t = v   (entries i..)
KeywordEach(t, table, i) ==
    IF i > Len(table) THEN t
    ELSE KeywordEach(IF Contains(t, table[i][1]) THEN table[i][2] ELSE t, table, i + 1)

normalize_time_text_in_place(text) ==
    Replace(ReplaceEach(Lower(Strip(OrEmpty(text))), CEB_TIME_KEYWORDS, 1), " ", "")

normalize_time_text(text) ==
    Replace(KeywordEach(Lower(Strip(OrEmpty(text))), CEB_TIME_KEYWORDS, 1), " ", "")

\* A wall-clock time (datetime.now()).
Clock(h, m) == [hour |-> h, minute |-> m]

\* f"{h:02d}:{mins:02d}"
HHMM(h, mins) == ZeroPad(h, 2) \o ":" \o ZeroPad(mins, 2)

\* re.match(r"^(\d{1,2})(?::(\d{2}))?(am|pm)?$", s): the ways s matches, each
\* as <<length of group 1, whether group 2 took part, group 3 or "">>.
ClockMatch(s) ==
    {m \in (1..2) \X BOOLEAN \X {"", "am", "pm"} :
        /\ m[1] <= Len(s)
        /\ AllDigits(SubSeq(s, 1, m[1]))
        /\ IF m[2]
           THEN /\ Len(s) >= m[1] + 3
                /\ Char(s, m[1] + 1) = ":"
                /\ AllDigits(SubSeq(s, m[1] + 2, m[1] + 3))
                /\ Drop(s, m[1] + 3) = m[3]
           ELSE Drop(s, m[1]) = m[3]}

\* WORD_MAP, with datetime.now().strftime("%H:%M") taken at `now`.
WORD_MAP(now) ==
    ("morning" :> "09:00") @@ ("noon" :> "12:00") @@ ("afternoon" :> "15:00") @@
    ("evening" :> "18:00") @@ ("now" :> HHMM(now.hour, now.minute))

\* v[i:].startswith(p), i 1-based
StartsAt(v, i, p) == i + Len(p) - 1 <= Len(v) /\ SubSeq(v, i, i + Len(p) - 1) = p

RECURSIVE SkipSpaces(_, _)
\* \s* from index i: the index of the first character it does not take
SkipSpaces(v, i) ==
    IF i <= Len(v) /\ IsSpace(Char(v, i)) THEN SkipSpaces(v, i + 1) ELSE i

RECURSIVE DigitRun(_, _)
\* the number of digits of v from index i on
DigitRun(v, i) ==
    IF i <= Len(v) /\ IsDigit(Char(v, i)) THEN 1 + DigitRun(v, i + 1) ELSE 0

\* alas\s*(\d{1,2})\s*(?:sa)?\s*(buntag|hapon|gabii) matched from index i:
\* <<int(group 1), group 2>>, or <<>> when it does not match there.
AlasAt(v, i) ==
    LET j == SkipSpaces(v, i + 4)
        n == DigitRun(v, j)
        k == SkipSpaces(v, j + n)
        k2 == IF StartsAt(v, k, "sa") THEN SkipSpaces(v, k + 2) ELSE k
        parts == {p \in {"buntag", "hapon", "gabii"} : StartsAt(v, k2, p)}
    IN  IF StartsAt(v, i, "alas") /\ n \in 1..2 /\ parts # {}
        THEN <<ParseInt(SubSeq(v, j, j + n - 1)), CHOOSE p \in parts : TRUE>>
        ELSE <<>>

\* re.search of that pattern in v: the leftmost match, or <<>>.
AlasSearch(v) ==
    LET hits == {i \in 1..Len(v) : AlasAt(v, i) # <<>>}
    IN  IF hits = {} THEN <<>>
        ELSE AlasAt(v, CHOOSE i \in hits : \A j \in hits : i <= j)

\* The hour of "alas N sa <part>".
AlasHour(h, part) ==
    IF part = "buntag" THEN (IF h = 12 THEN 0 ELSE h)
    ELSE IF h < 12 THEN h + 12 ELSE h

To24Hour_pm_always(h, ampm) ==
    IF ampm = "pm" THEN h + 12
    ELSE IF ampm = "am" /\ h = 12 THEN 0
    ELSE h

\* if ampm: pm and h != 12 -> h + 12; am and h == 12 -> 0
To24Hour(h, ampm) ==
    IF ampm = "pm" /\ h # 12 THEN h + 12
    ELSE IF ampm = "am" /\ h = 12 THEN 0
    ELSE h

\* parse_time, with datetime.now() = now.
parse_time(value, now) ==
    LET s == normalize_time_text(value)
        ms == ClockMatch(s)
        m == CHOOSE m \in ms : TRUE
        h0 == ParseInt(SubSeq(s, 1, m[1]))
        mins == IF m[2] THEN ParseInt(SubSeq(s, m[1] + 2, m[1] + 3)) ELSE 0
        h == To24Hour(h0, m[3])
        m2 == AlasSearch(Lower(OrEmpty(value)))
    IN  IF ms # {} /\ 0 <= h /\ h < 24 /\ 0 <= mins /\ mins < 60
        THEN Ret(Some(HHMM(h, mins)), FALSE)
        ELSE IF s \in DOMAIN WORD_MAP(now)
        THEN Ret(Some(WORD_MAP(now)[s]), FALSE)
        ELSE IF m2 # <<>>
        THEN Ret(Some(HHMM(AlasHour(m2[1], m2[2]), 0)), FALSE)
        ELSE Ret(None, FALSE)

YES_PHRASES ==
    {"yes", "y", "yep", "yeah", "yup", "sure", "ok", "okay", "okk", "okie",
     "go ahead", "please", "yes please", "proceed", "sige", "oo", "oo, sige", "oo sige"}

NO_PHRASES == {"no", "nope", "nah", "not now", "maybe later", "dili", "ayaw"}

normalize_yes_no_passthrough(value) ==
    LET v == Lower(Strip(OrEmpty(value)))
    IN  IF v \in YES_PHRASES THEN Ret(Some("yes"), FALSE)
        ELSE IF v \in NO_PHRASES THEN Ret(Some("no"), FALSE)
        ELSE Ret(Some(OrEmpty(value)), FALSE)

normalize_yes_no_case_sensitive(value) ==
    LET v == Strip(OrEmpty(value))
    IN  IF v \in YES_PHRASES THEN Ret(Some("yes"), FALSE)
        ELSE IF v \in NO_PHRASES THEN Ret(Some("no"), FALSE)
        ELSE Ret(Some(v), FALSE)

\* v = (value or "").strip().lower(); "yes" / "no" by membership, else v or ""
normalize_yes_no(value) ==
    LET v == Lower(Strip(OrEmpty(value)))
    IN  IF v \in YES_PHRASES THEN Ret(Some("yes"), FALSE)
        ELSE IF v \in NO_PHRASES THEN Ret(Some("no"), FALSE)
        ELSE Ret(Some(v), FALSE)

----------------------------------------------------------------------------
(* The conversation: user messages arrive, the policy runs handlers *)

\* Largest number of keys in a sampled responses dict.
MaxKeys == 2

\* Number of times the canonicalizer is re-applied to its own result.
MaxCanon == 2

\* Template keys the selector can look up for the sampled intents.
SelectorKeys ==
    {"utter_crisis", "utter_safety_critical",
     "utter_anxiety", "utter_anxiety/p0007", "utter_anxiety/p0007/b"}

\* Template keys the analyze / coping handlers can look up.
FlowKeys ==
    {"utter_support_anxiety", "utter_offer_coping",
     "utter_coping_anxiety", "utter_offer_referral", "utter_ask_book_counselor"}

\* Sampled responses dicts: up to MaxKeys keys of either family.
KeySets ==
    {S \in (SUBSET SelectorKeys) \cup (SUBSET FlowKeys) : Cardinality(S) <= MaxKeys}

Domains == {DomainMissing, DomainNull} \cup {DomainDict(K) : K \in KeySets}

IntentNames ==
    {None, Some("safety_critical"), Some("anxiety"), Some("anxiety/p0007"),
     Some("anxiety/p0007/b"), Some("anxiety_p0007"), Some("express_sadness")}

Texts == {None, Some("i feel anxious"), Some("I Want To Die")}

LangTags == {None, Some("ceb")}

UserMessages == [intent : IntentNames, text : Texts, lang : LangTags]

\* The tracker as a handler sees it.
Tracker == [latest_message |-> latest_message, slots |-> slots]

\* The tracker applies the events a run returned.
ApplyEvents(sl, evs) ==
    IF Len(evs) = 0 THEN sl ELSE [sl EXCEPT !.mood = Some(evs[Len(evs)].value)]

Init ==
    /\ latest_message = [intent |-> None, text |-> None, lang |-> None]
    /\ slots = [mood |-> None]
    /\ domain \in Domains
    /\ action = "none"
    /\ dispatched = <<>>
    /\ events = <<>>
    /\ raised = FALSE
    /\ chain = <<>>
    /\ call = NoCall
    /\ ret = NoReturn
    /\ other = FreshConversation

\* A user message arrives: a fresh turn, nothing dispatched yet.
UserUttered ==
    /\ \E m \in UserMessages : latest_message' = m
    /\ action' = "none"
    /\ dispatched' = <<>>
    /\ events' = <<>>
    /\ raised' = FALSE
    /\ UNCHANGED <<slots, domain, chain, call, ret, other>>

\* One handler invocation and the tracker's application of its events.
Ran(name, r) ==
    /\ action' = name
    /\ dispatched' = r.messages
    /\ events' = r.events
    /\ raised' = r.raised
    /\ slots' = ApplyEvents(slots, r.events)
    /\ UNCHANGED <<latest_message, domain, chain, call, ret, other>>

RunSelectNumberedResponse ==
    Ran("action_select_numbered_response", ActionSelectNumberedResponse_run(Tracker, domain))

RunReflectiveSupport ==
    Ran("action_reflective_support", ActionReflectiveSupport_run(Tracker, domain))

RunAnalyzeIssue ==
    Ran("action_analyze_issue", ActionAnalyzeIssue_run(Tracker, domain))

RunGiveCoping ==
    Ran("action_give_coping", ActionGiveCoping_run(Tracker, domain))

Next ==
    \/ UserUttered
    \/ RunSelectNumberedResponse
    \/ RunReflectiveSupport
    \/ RunAnalyzeIssue
    \/ RunGiveCoping

Spec == Init /\ [][Next]_vars

----------------------------------------------------------------------------
(* The canonicalizer on its own: sampled intent names, re-applied to its result *)

MoodPrefixes == {"", "express_"}

MoodTokens ==
    DOMAIN MOOD_TO_SUPPORT_UTTER \cup
    {"sadness", "stress", "sleep", "relationship", "low_self_esteem",
     "sad", "grief", "burnout", "stressed", "selfesteem", "bodyimage",
     "happiness", "exam", ""}

MoodSuffixes == {"", "_p0007", "_p\\d", "_express_x"}

MoodSamples ==
    {p \o t \o x : p \in MoodPrefixes, t \in MoodTokens, x \in MoodSuffixes}

MoodInit ==
    /\ chain \in {<<x>> : x \in MoodSamples}
    /\ latest_message = [intent |-> None, text |-> None, lang |-> None]
    /\ slots = [mood |-> None]
    /\ domain = DomainMissing
    /\ action = "none"
    /\ dispatched = <<>>
    /\ events = <<>>
    /\ raised = FALSE
    /\ call = NoCall
    /\ ret = NoReturn
    /\ other = FreshConversation

Canonicalize ==
    /\ Len(chain) <= MaxCanon
    /\ chain' = Append(chain, _canonical_mood_from_intent(chain[Len(chain)]))
    /\ UNCHANGED <<latest_message, slots, domain, action, dispatched, events, raised, call, ret, other>>

MoodNext == Canonicalize

MoodSpec == MoodInit /\ [][MoodNext]_vars

----------------------------------------------------------------------------
(* The reflective handler on its own: every intent it tells apart, and     *)
(* language tags in other spellings than 'ceb'                             *)

ReflectIntents ==
    {None, Some("express_happiness"), Some("express_sadness"), Some("express_anxiety"),
     Some("express_stress"), Some("express_sadness/p0007"), Some("Express_Stress"),
     Some("anxiety")}

ReflectLangTags == {None, Some("ceb"), Some("CEB"), Some("Ceb"), Some("fr"), Some("en")}

ReflectMessages ==
    [intent : ReflectIntents, text : {None, Some("i feel anxious")}, lang : ReflectLangTags]

ReflectInit ==
    /\ latest_message = [intent |-> None, text |-> None, lang |-> None]
    /\ slots = [mood |-> None]
    /\ domain \in {DomainMissing, DomainNull, DomainDict({})}
    /\ action = "none"
    /\ dispatched = <<>>
    /\ events = <<>>
    /\ raised = FALSE
    /\ chain = <<>>
    /\ call = NoCall
    /\ ret = NoReturn
    /\ other = FreshConversation

\* A user message arrives: a fresh turn, nothing dispatched yet.
ReflectUserUttered ==
    /\ \E m \in ReflectMessages : latest_message' = m
    /\ action' = "none"
    /\ dispatched' = <<>>
    /\ events' = <<>>
    /\ raised' = FALSE
    /\ UNCHANGED <<slots, domain, chain, call, ret, other>>

ReflectNext ==
    \/ ReflectUserUttered
    \/ RunReflectiveSupport

ReflectSpec == ReflectInit /\ [][ReflectNext]_vars

----------------------------------------------------------------------------
(* The selector on its own: intents named like the crisis templates *)

SelectIntents ==
    {None, Some("safety_critical"), Some("safety_critical/p0007"), Some("crisis"),
     Some("crisis/p0007"), Some("anxiety")}

SelectMessages == [intent : SelectIntents, text : Texts, lang : {None}]

SelectDomains ==
    {DomainMissing, DomainNull} \cup
    {DomainDict(K) : K \in SUBSET {"utter_crisis", "utter_crisis/p0007",
                                   "utter_safety_critical", "utter_anxiety"}}

SelectInit ==
    /\ latest_message = [intent |-> None, text |-> None, lang |-> None]
    /\ slots = [mood |-> None]
    /\ domain \in SelectDomains
    /\ action = "none"
    /\ dispatched = <<>>
    /\ events = <<>>
    /\ raised = FALSE
    /\ chain = <<>>
    /\ call = NoCall
    /\ ret = NoReturn
    /\ other = FreshConversation

\* A user message arrives: a fresh turn, nothing dispatched yet.
SelectUserUttered ==
    /\ \E m \in SelectMessages : latest_message' = m
    /\ action' = "none"
    /\ dispatched' = <<>>
    /\ events' = <<>>
    /\ raised' = FALSE
    /\ UNCHANGED <<slots, domain, chain, call, ret, other>>

SelectNext ==
    \/ SelectUserUttered
    \/ RunSelectNumberedResponse

SelectSpec == SelectInit /\ [][SelectNext]_vars

----------------------------------------------------------------------------
(* Two conversations served by one process: their turns interleave, the    *)
(* domain dict and the module-level tables are the same objects for both   *)

InterMessages ==
    [intent : {None, Some("anxiety"), Some("express_sadness")},
     text : {Some("I Want To Die")}, lang : {None}]

InterDomains ==
    {DomainMissing, DomainDict({"utter_anxiety", "utter_coping_anxiety"}),
     DomainDict({"utter_crisis", "utter_offer_coping"})}

InterInit ==
    /\ latest_message = [intent |-> None, text |-> None, lang |-> None]
    /\ slots = [mood |-> None]
    /\ domain \in InterDomains
    /\ action = "none"
    /\ dispatched = <<>>
    /\ events = <<>>
    /\ raised = FALSE
    /\ chain = <<>>
    /\ call = NoCall
    /\ ret = NoReturn
    /\ other = FreshConversation

\* A user message arrives in the first conversation.
InterUserUttered ==
    /\ \E m \in InterMessages : latest_message' = m
    /\ action' = "none"
    /\ dispatched' = <<>>
    /\ events' = <<>>
    /\ raised' = FALSE
    /\ UNCHANGED <<slots, domain, chain, call, ret, other>>

\* A user message arrives in the second conversation.
OtherUttered ==
    /\ \E m \in InterMessages :
           other' = [other EXCEPT !.latest_message = m, !.action = "none",
                                  !.dispatched = <<>>, !.events = <<>>, !.raised = FALSE]
    /\ UNCHANGED <<latest_message, slots, domain, action, dispatched, events, raised,
                   chain, call, ret>>

\* run() of the handler called name.
HandlerResult(name, tracker, dom) ==
    CASE name = "action_select_numbered_response" -> ActionSelectNumberedResponse_run(tracker, dom)
      [] name = "action_reflective_support" -> ActionReflectiveSupport_run(tracker, dom)
      [] name = "action_analyze_issue" -> ActionAnalyzeIssue_run(tracker, dom)
      [] name = "action_give_coping" -> ActionGiveCoping_run(tracker, dom)

Handlers ==
    {"action_select_numbered_response", "action_reflective_support",
     "action_analyze_issue", "action_give_coping"}

OtherRan_shared_slots(name) ==
    LET r == HandlerResult(name, [latest_message |-> other.latest_message, slots |-> slots],
                           domain)
    IN  /\ other' = [other EXCEPT !.action = name, !.dispatched = r.messages,
                                  !.events = r.events, !.raised = r.raised,
                                  !.slots = ApplyEvents(other.slots, r.events)]
        /\ slots' = ApplyEvents(slots, r.events)
        /\ UNCHANGED <<latest_message, domain, action, dispatched, events, raised,
                       chain, call, ret>>

\* One handler invocation in the second conversation, on its own tracker.
OtherRan(name) ==
    LET r == HandlerResult(name, [latest_message |-> other.latest_message,
                                  slots |-> other.slots], domain)
    IN  /\ other' = [other EXCEPT !.action = name, !.dispatched = r.messages,
                                  !.events = r.events, !.raised = r.raised,
                                  !.slots = ApplyEvents(other.slots, r.events)]
        /\ UNCHANGED <<latest_message, slots, domain, action, dispatched, events, raised,
                       chain, call, ret>>

OtherRanHandler == \E name \in Handlers : OtherRan(name)

InterNext ==
    \/ InterUserUttered
    \/ RunSelectNumberedResponse
    \/ RunReflectiveSupport
    \/ RunAnalyzeIssue
    \/ RunGiveCoping
    \/ OtherUttered
    \/ OtherRanHandler

InterleaveSpec == InterInit /\ [][InterNext]_vars

----------------------------------------------------------------------------
(* The slot parsers on their own: one call per step, on sampled arguments *)

\* Current dates the clock can show: leap day ahead, month end, year end.
Todays == {Date(2024, 2, 28), Date(2023, 2, 28), Date(2024, 12, 25), Date(2024, 12, 31)}

\* Current times of day the clock can show.
Clocks == {Clock(0, 5), Clock(23, 59)}

\* What dateutil's parse does when parse_date reaches it.
FuzzyOutcomes == {FuzzyAbsent, FuzzyRaises, FuzzyNull, FuzzyDate(Date(2025, 3, 9))}

UpperChar(c) ==
    IF \E i \in 1..26 : Char(LOWER, i) = c
    THEN Char(UPPER, CHOOSE i \in 1..26 : Char(LOWER, i) = c)
    ELSE c

RECURSIVE Upper(_)
\* str.upper
Upper(s) ==
    IF s = "" THEN "" ELSE UpperChar(Char(s, 1)) \o Upper(Drop(s, 1))

\* The ways a user types one phrase: as is, shouting, padded.
Typed(p) == {p, Upper(p), " " \o p \o "\n", "\t" \o Upper(p) \o " "}

DateKeywords ==
    {"tomorrow", "ugma", "tmrw", "tommorow", "tomorow", "today", "now", "karon",
     "nextweek", "next week", "sunod semana"}

DateTexts ==
    {None, Some(""), Some("12/25"), Some("Dec 25 "), Some("see you"), Some("unya"),
     Some("12-25-2024"), Some("on DEC 5 ok"), Some("ugma 5"), Some("dec 255"),
     Some("de 25"), Some("a12/25")}
    \cup {Some(t) : t \in UNION {Typed(k) : k \in DateKeywords}}

ClockHours == {"0", "3", "9", "12", "13", "24", "07"}
ClockMinutes == {"", ":30", ":59", ":60", ":75"}
ClockMeridiems == {"", "am", "pm", " am", " pm"}

ClockTexts == {h \o m \o a : h \in ClockHours, m \in ClockMinutes, a \in ClockMeridiems}

AlasHours == {"3", "5", "7", "12", "13"}
AlasParts == {"buntag", "hapon", "gabii"}

AlasTexts == {"alas " \o n \o " sa " \o part : n \in AlasHours, part \in AlasParts}

\* The Cebuano time keywords, and texts holding one or two of them.
TimeKeywords == {"buntag", "hapon", "udto", "gabii", "karon"}

OneKeywordTexts == UNION {{k, "Sa " \o k \o " "} : k \in TimeKeywords}

TwoKeywordTexts ==
    {p[1] \o " o " \o p[2] : p \in {q \in TimeKeywords \X TimeKeywords : q[1] # q[2]}}

\* 'alas N sa <part>' with an hour no clock has.
AlasBeyondClockTexts == {"alas 24 sa hapon", "alas 30 sa gabii", "alas 99 sa buntag"}

TimeTexts ==
    {None, Some("3 PM"), Some("noon"), Some("now"), Some("later"), Some("99"), Some("7:5")}
    \cup {Some(t) : t \in ClockTexts \cup AlasTexts \cup OneKeywordTexts
                           \cup TwoKeywordTexts \cup AlasBeyondClockTexts}

YesNoTexts ==
    {None, Some(""), Some("  "), Some("maybe"), Some(" Maybe "), Some("MAYBE"),
     Some("not sure"), Some("Yes!")}
    \cup {Some(t) : t \in UNION {Typed(k) : k \in YES_PHRASES \cup NO_PHRASES}}

ParseInit ==
    /\ call = NoCall
    /\ ret = NoReturn
    /\ other = FreshConversation
    /\ latest_message = [intent |-> None, text |-> None, lang |-> None]
    /\ slots = [mood |-> None]
    /\ domain = DomainMissing
    /\ action = "none"
    /\ dispatched = <<>>
    /\ events = <<>>
    /\ raised = FALSE
    /\ chain = <<>>

\* One parser call: its arguments, what the clock and dateutil did, its result.
Called(fn, value, today, now, fuzzy, r) ==
    /\ call' = [fn |-> fn, value |-> value, today |-> today, now |-> now, fuzzy |-> fuzzy]
    /\ ret' = r
    /\ UNCHANGED <<latest_message, slots, domain, action, dispatched, events, raised, chain,
                 other>>

CallParseDate ==
    \E value \in DateTexts, today \in Todays, fuzzy \in FuzzyOutcomes :
        Called("parse_date", value, today, Clock(0, 0), fuzzy, parse_date(value, today, fuzzy))

CallParseTime ==
    \E value \in TimeTexts, now \in Clocks :
        Called("parse_time", value, Date(2024, 1, 1), now, FuzzyAbsent, parse_time(value, now))

CallNormalizeYesNo ==
    \E value \in YesNoTexts :
        Called("normalize_yes_no", value, Date(2024, 1, 1), Clock(0, 0), FuzzyAbsent,
               normalize_yes_no(value))

ParseNext ==
    \/ CallParseDate
    \/ CallParseTime
    \/ CallNormalizeYesNo

ParseSpec == ParseInit /\ [][ParseNext]_vars

----------------------------------------------------------------------------
(* Properties *)

\* The current turn as the properties read it.
IntentNow == OrEmpty(latest_message.intent)
TextNow == OrEmpty(latest_message.text)
StoreKeys == IF domain.kind = "dict" THEN domain.keys ELSE {}

\* The raw text contains a crisis phrase as a case-insensitive substring.
HasCrisisPhrase ==
    \E k \in CRISIS_KEYWORDS :
        \E i \in 1..(Len(TextNow) - Len(k) + 1) :
            Lower(SubSeq(TextNow, i, i + Len(k) - 1)) = k

OverrideDue == IntentNow = "safety_critical" \/ HasCrisisPhrase

SelectorRan == action = "action_select_numbered_response"

\* The part of s before its first "/" (all of s when it has none).
BeforeFirstSlash(s) ==
    LET n == CHOOSE n \in 0..Len(s) :
                 /\ \A j \in 1..n : Char(s, j) # "/"
                 /\ n = Len(s) \/ Char(s, n + 1) = "/"
    IN  SubSeq(s, 1, n)

\* C1: whenever the raw text contains a crisis phrase (any letter case) and the
\* store defines utter_crisis, the selector's only directive is the template
\* utter_crisis, whatever the intent and the other keys of the store.
C1_CrisisTextGivesCrisisTemplate ==
    (SelectorRan /\ HasCrisisPhrase /\ "utter_crisis" \in StoreKeys)
        => dispatched = <<Response("utter_crisis")>>

\* C1 witness: crisis text in mixed case under intent anxiety, with the store
\* holding the intent's own template next to utter_crisis.
C1_Witness ==
    /\ SelectorRan
    /\ HasCrisisPhrase
    /\ TextNow # Lower(TextNow)
    /\ IntentNow = "anxiety"
    /\ StoreKeys = {"utter_crisis", "utter_anxiety"}
    /\ dispatched = <<Response("utter_crisis")>>

\* C2: when the override fires and the store does not define utter_crisis, the
\* selector emits exactly the hard-coded safety text; no template is looked up.
C2_OverrideWithoutTemplateGivesSafetyText ==
    (SelectorRan /\ OverrideDue /\ "utter_crisis" \notin StoreKeys)
        => /\ ~raised
           /\ dispatched = <<Text(SAFETY_TEXT)>>

\* C2 witness: intent safety_critical, no crisis phrase, and a store that
\* defines utter_safety_critical but not utter_crisis.
C2_Witness ==
    /\ SelectorRan
    /\ IntentNow = "safety_critical"
    /\ ~HasCrisisPhrase
    /\ StoreKeys = {"utter_safety_critical"}
    /\ dispatched = <<Text(SAFETY_TEXT)>>

\* C3: in a turn whose text contains a crisis phrase or whose intent is
\* safety_critical, whichever handler ran emitted the crisis template (or the
\* safety text when the store lacks it) and nothing else.
C3_NoHandlerBypassesOverride ==
    (action # "none" /\ OverrideDue)
        => dispatched = <<IF "utter_crisis" \in StoreKeys
                          THEN Response("utter_crisis")
                          ELSE Text(SAFETY_TEXT)>>

\* C4: without the override, the selector emits utter_<intent> if the store has
\* it, else utter_<the part of the intent before its first "/"> if the store
\* has that, else the generic fallback text; it always emits something.
C4_SpecificThenParentThenGeneric ==
    (SelectorRan /\ ~OverrideDue)
        => dispatched =
              <<IF ("utter_" \o IntentNow) \in StoreKeys
                THEN Response("utter_" \o IntentNow)
                ELSE IF ("utter_" \o BeforeFirstSlash(IntentNow)) \in StoreKeys
                     THEN Response("utter_" \o BeforeFirstSlash(IntentNow))
                     ELSE Text(GENERIC_TEXT)>>

\* C4 witness: an intent with two "/" whose specific key is missing while both
\* utter_anxiety and utter_anxiety/p0007 exist: the parent utter_anxiety is used.
C4_Witness ==
    /\ SelectorRan
    /\ ~OverrideDue
    /\ IntentNow = "anxiety/p0007/b"
    /\ StoreKeys = {"utter_anxiety", "utter_anxiety/p0007"}
    /\ dispatched = <<Response("utter_anxiety")>>

\* C5: every run of the selector emits exactly one message (a template
\* reference or a literal text), returns no event, and leaves the slots as
\* they were.
C5_OneMessageNoEvents ==
    [][action' = "action_select_numbered_response"
          => /\ ~raised'
             /\ Len(dispatched') = 1
             /\ dispatched'[1].kind \in {"response", "text"}
             /\ events' = <<>>
             /\ slots' = slots]_vars

\* C5 witness: the selector ran on the generic-fallback path while the mood
\* slot held a value, which it kept.
C5_Witness ==
    /\ SelectorRan
    /\ slots.mood = Some("anxiety")
    /\ dispatched = <<Text(GENERIC_TEXT)>>
    /\ events = <<>>

\* C6: every handler, on every input, completes without raising and has
\* emitted at least one message.
C6_HandlersNeverRaise ==
    action # "none" => (~raised /\ Len(dispatched) >= 1)

\* C7: with "responses" missing or None the selector does what it does with an
\* empty store: the generic text without the override, the safety text with
\* it, and no exception.
C7_MissingStoreLikeEmptyStore ==
    (SelectorRan /\ domain.kind \in {"missing", "null"})
        => /\ ~raised
           /\ events = <<>>
           /\ dispatched = <<Text(IF OverrideDue THEN SAFETY_TEXT ELSE GENERIC_TEXT)>>
           /\ dispatched = ActionSelectNumberedResponse_run(Tracker, DomainDict({})).messages

\* C7 witness: "responses" is None, no override: the generic text.
C7_Witness ==
    /\ SelectorRan
    /\ domain = DomainNull
    /\ ~OverrideDue
    /\ ~raised
    /\ dispatched = <<Text(GENERIC_TEXT)>>

\* C8: canonicalizing a canonicalized intent changes nothing.
C8_CanonicalizeIdempotent ==
    Len(chain) >= 3 => chain[3] = chain[2]

\* The lengths of the bases of x read as <base>_p<digits>.
NumericVariantBases(x) ==
    {i \in 1..(Len(x) - 3) :
        /\ SubSeq(x, i + 1, i + 2) = "_p"
        /\ \A j \in (i + 3)..Len(x) : IsDigit(Char(x, j))}

\* C9: an intent <base>_p<digits> without the express_ prefix canonicalizes to
\* what <base> canonicalizes to.
C9_NumericVariantStripped ==
    (Len(chain) >= 2 /\ ~StartsWith(chain[1], "express_"))
        => \A i \in NumericVariantBases(chain[1]) :
               chain[2] = _canonical_mood_from_intent(SubSeq(chain[1], 1, i))

\* C10: the analyze handler's first message is utter_support_<mood> when the
\* store defines it and the generic text when it does not; it never emits a
\* template key the store lacks.
C10_SupportTemplateOnlyIfDefined ==
    (action = "action_analyze_issue"
        /\ _canonical_mood_from_intent(IntentNow) \in DOMAIN MOOD_TO_SUPPORT_UTTER)
        => /\ Len(dispatched) >= 1
           /\ dispatched[1] =
                 IF ("utter_support_" \o _canonical_mood_from_intent(IntentNow)) \in StoreKeys
                 THEN Response("utter_support_" \o _canonical_mood_from_intent(IntentNow))
                 ELSE Text(SUPPORT_GENERIC_TEXT)
           /\ \A i \in 1..Len(dispatched) :
                 dispatched[i].kind = "response" => dispatched[i].val \in StoreKeys

----------------------------------------------------------------------------
(* Properties of the slot parsers *)

ParsedDate == call.fn = "parse_date"
ParsedTime == call.fn = "parse_time"
NormalizedYesNo == call.fn = "normalize_yes_no"

\* The call returned this value, without raising.
Gave(v) == ret.value = v /\ ~ret.raised

TomorrowWords == {"tomorrow", "ugma", "tmrw", "tommorow", "tomorow"}
TodayWords == {"today", "now", "karon"}

\* C11: 'tomorrow', 'ugma' and the misspellings 'tmrw', 'tommorow', 'tomorow'
\* parse to the current date plus one day in ISO form, and 'today', 'now' and
\* 'karon' to the current date, in any letter case and with any surrounding
\* whitespace.
C11_TomorrowAndTodayKeywords ==
    ParsedDate =>
        /\ \A k \in TomorrowWords : \A t \in Typed(k) :
               call.value = Some(t) => Gave(Some(IsoFormat(AddDays(call.today, 1))))
        /\ \A k \in TodayWords : \A t \in Typed(k) :
               call.value = Some(t) => Gave(Some(IsoFormat(call.today)))

C11_Witness ==
    /\ ParsedDate
    /\ call.value = Some("\tTMRW ")
    /\ call.today = Date(2024, 12, 31)
    /\ call.fuzzy.kind = "date"
    /\ ret.value = Some("2025-01-01")

\* C12: 'next week', 'nextweek' and 'sunod semana' each parse to the current
\* date plus seven days, whatever the fuzzy-date collaborator does.
C12_NextWeekKeywords ==
    ParsedDate =>
        \A k \in {"next week", "nextweek", "sunod semana"} :
            call.value = Some(k) => Gave(Some(IsoFormat(AddDays(call.today, 7))))

\* The inputs on which one of parse_date's keyword rules fires: the text,
\* trimmed and lower-cased, is today / now / tomorrow / nextweek or a word the
\* lexicon rewrites to one of them.
KeywordDateTexts ==
    {Some(t) : t \in UNION {Typed(k) : k \in TomorrowWords \cup TodayWords \cup {"nextweek"}}}

\* What the date-like-token rule gives on the other sampled inputs.
DateLikeTokens ==
    (Some("12/25") :> Some("12/25")) @@ (Some("Dec 25 ") :> Some("dec 25")) @@
    (Some("12-25-2024") :> Some("12-25-2024")) @@ (Some("on DEC 5 ok") :> Some("on dec 5 ok")) @@
    (Some("ugma 5") :> Some("tomorrow 5"))

\* C13: parse_date never raises; when a keyword rule matches, the collaborator
\* is not consulted; on every other input the collaborator being absent,
\* raising or returning null gives one and the same result: the date-like
\* token if the text holds one, else no match.
C13_CollaboratorFailuresAlike ==
    ParsedDate =>
        /\ ~ret.raised
        /\ call.value \in KeywordDateTexts => ~ret.fuzzy_called
        /\ (call.value \notin KeywordDateTexts /\ call.fuzzy.kind \in {"absent", "raises", "null"})
               => /\ ret.value = IF call.value \in DOMAIN DateLikeTokens
                                 THEN DateLikeTokens[call.value] ELSE None
                  /\ ret.fuzzy_called = (call.fuzzy.kind # "absent")

C13_Witness ==
    /\ ParsedDate
    /\ call.value = Some("Dec 25 ")
    /\ call.fuzzy.kind = "raises"
    /\ ret.fuzzy_called
    /\ Gave(Some("dec 25"))

HourValue ==
    ("0" :> 0) @@ ("3" :> 3) @@ ("9" :> 9) @@ ("12" :> 12) @@ ("13" :> 13) @@
    ("24" :> 24) @@ ("07" :> 7)
MinuteValue == ("" :> 0) @@ (":30" :> 30) @@ (":59" :> 59) @@ (":60" :> 60) @@ (":75" :> 75)
MeridiemValue == ("" :> "") @@ ("am" :> "am") @@ ("pm" :> "pm") @@ (" am" :> "am") @@ (" pm" :> "pm")

\* The 24-hour hour of hour H under a meridiem.
ClockHour(H, ap) ==
    IF ap = "pm" /\ H # 12 THEN H + 12 ELSE IF ap = "am" /\ H = 12 THEN 0 ELSE H

\* C14: on 'H[:MM][am|pm]' (spaces ignored) 'pm' adds 12 unless the hour is 12,
\* 'am' turns 12 into 0, and the result is the zero-padded 'HH:MM' exactly when
\* the hour is in [0,24) and the minute in [0,60), else no match; so '3pm' is
\* '15:00', '12am' is '00:00', '12pm' is '12:00', and '13pm', '24', '9:75' do
\* not match.
C14_NumericClockRule ==
    ParsedTime =>
        /\ \A h \in ClockHours, m \in ClockMinutes, a \in ClockMeridiems :
               call.value = Some(h \o m \o a) =>
                   LET H == ClockHour(HourValue[h], MeridiemValue[a])
                       M == MinuteValue[m]
                   IN  Gave(IF H < 24 /\ M < 60 THEN Some(HHMM(H, M)) ELSE None)
        /\ call.value = Some("3pm") => Gave(Some("15:00"))
        /\ call.value = Some("12am") => Gave(Some("00:00"))
        /\ call.value = Some("12pm") => Gave(Some("12:00"))
        /\ call.value \in {Some("13pm"), Some("24"), Some("9:75")} => Gave(None)

C14_Witness ==
    /\ ParsedTime
    /\ call.value = Some("12:59 am")
    /\ Gave(Some("00:59"))

\* The hour 'alas N sa <part>' names.
PartOfDayHour(N, part) ==
    IF part = "buntag" THEN (IF N = 12 THEN 0 ELSE N)
    ELSE IF N >= 12 THEN N ELSE N + 12

\* C15: 'alas N sa <part>' with part buntag / hapon / gabii gives 'HH:00' with
\* hour N disambiguated by the part ('buntag': 12 becomes 0; 'hapon', 'gabii':
\* add 12 unless N >= 12), so 'alas 5 sa hapon' is '17:00' and 'alas 7 sa
\* buntag' is '07:00'.
C15_AlasPattern ==
    ParsedTime =>
        \A n \in AlasHours, part \in AlasParts :
            call.value = Some("alas " \o n \o " sa " \o part) =>
                Gave(Some(HHMM(PartOfDayHour(HourValue[n], part), 0)))

\* Sampled replies in neither phrase set, each with its trimmed lower-case form.
OpenReplies ==
    ("maybe" :> "maybe") @@ (" Maybe " :> "maybe") @@ ("MAYBE" :> "maybe") @@
    ("not sure" :> "not sure") @@ ("Yes!" :> "yes!") @@ ("  " :> "")

\* C16 as stated: a reply in neither phrase set is returned unchanged, upper
\* case and surrounding whitespace included.
C16_UnmatchedUnchanged ==
    NormalizedYesNo =>
        \A v \in DOMAIN OpenReplies : call.value = Some(v) => Gave(Some(v))

\* C16 amended: a reply in neither phrase set is returned stripped of
\* surrounding whitespace and lower-cased (so 'maybe' is returned as it is).
C16_UnmatchedTrimmedLowered ==
    NormalizedYesNo =>
        \A v \in DOMAIN OpenReplies : call.value = Some(v) => Gave(Some(OpenReplies[v]))

C16_Witness ==
    /\ NormalizedYesNo
    /\ call.value = Some(" Maybe ")
    /\ Gave(Some("maybe"))

\* C17: every affirmative phrase, in any letter case and with any surrounding
\* whitespace, gives 'yes', every negative phrase 'no'; the two phrase sets
\* are disjoint; a null input gives the empty string without raising.
C17_YesNoMembership ==
    /\ YES_PHRASES \cap NO_PHRASES = {}
    /\ NormalizedYesNo =>
           /\ \A k \in YES_PHRASES : \A t \in Typed(k) :
                  call.value = Some(t) => Gave(Some("yes"))
           /\ \A k \in NO_PHRASES : \A t \in Typed(k) :
                  call.value = Some(t) => Gave(Some("no"))
           /\ call.value = None => Gave(Some(""))

C17_Witness ==
    /\ NormalizedYesNo
    /\ call.value = Some("\tOO, SIGE ")
    /\ Gave(Some("yes"))

----------------------------------------------------------------------------
(* Properties of the reflective and coping handlers *)

ReflectiveRan == action = "action_reflective_support"
CopingRan == action = "action_give_coping"

\* The bilingual pair the reflective handler has for the current intent.
ReflectPair ==
    CASE IntentNow = "express_happiness" -> REFLECT_HAPPINESS
      [] IntentNow = "express_sadness" -> REFLECT_SADNESS
      [] IntentNow = "express_anxiety" -> REFLECT_ANXIETY
      [] IntentNow = "express_stress" -> REFLECT_STRESS
      [] OTHER -> REFLECT_OTHER

\* C18 as stated: the reflective handler emits exactly one literal message and
\* no slot update, the pair chosen by exact intent name; the Cebuano text when
\* the language tag is 'ceb', the English text for every other tag.
C18_ReflectiveByIntentAndTag ==
    ReflectiveRan =>
        /\ ~raised
        /\ events = <<>>
        /\ dispatched =
               <<Text(IF latest_message.lang = Some("ceb")
                      THEN ReflectPair[2] ELSE ReflectPair[1])>>

\* C18 amended: as above, with the Cebuano text when the language tag,
\* lower-cased, is 'ceb' ('CEB' and 'Ceb' included), the English text for
\* every other tag and for no tag.
C18_ReflectiveByIntentAndLoweredTag ==
    ReflectiveRan =>
        /\ ~raised
        /\ events = <<>>
        /\ dispatched =
               <<Text(IF latest_message.lang \in {Some("ceb"), Some("CEB"), Some("Ceb")}
                      THEN ReflectPair[2] ELSE ReflectPair[1])>>

C18_Witness ==
    /\ ReflectiveRan
    /\ latest_message.intent = Some("express_stress")
    /\ latest_message.lang = Some("CEB")
    /\ dispatched = <<Text(REFLECT_STRESS[2])>>

\* The mood the coping handler works with: the mood slot when it holds a
\* value, else the canonical mood of the current intent.
CopingMood ==
    IF slots.mood \notin {None, Some("")} THEN slots.mood[1]
    ELSE _canonical_mood_from_intent(IntentNow)

\* The coping message: the mood's template when the mood is canonical and the
\* store defines it, else the generic coping text.
CopingMessage ==
    IF CopingMood \in DOMAIN MOOD_TO_COPING_UTTER /\ ("utter_coping_" \o CopingMood) \in StoreKeys
    THEN Response("utter_coping_" \o CopingMood)
    ELSE Text(COPING_GENERIC_TEXT)

\* C19: the coping handler takes the mood from the mood slot when it holds a
\* value and from the current intent otherwise, and emits utter_coping_<mood>
\* when the mood is canonical and the store defines the template, the generic
\* coping text otherwise.
C19_CopingBySlotThenIntent ==
    CopingRan => (Len(dispatched) >= 1 /\ dispatched[1] = CopingMessage)

\* C20: the coping message is always the first message; after it comes
\* utter_offer_referral if the store defines it, otherwise
\* utter_ask_book_counselor if the store defines that, otherwise nothing;
\* never both, and no slot update.
C20_FollowUpOrder ==
    CopingRan =>
        /\ Len(dispatched) >= 1
        /\ dispatched[1] \in {Text(COPING_GENERIC_TEXT)} \cup
               {Response(MOOD_TO_COPING_UTTER[m]) : m \in DOMAIN MOOD_TO_COPING_UTTER}
        /\ Tail(dispatched) =
               IF "utter_offer_referral" \in StoreKeys
               THEN <<Response("utter_offer_referral")>>
               ELSE IF "utter_ask_book_counselor" \in StoreKeys
               THEN <<Response("utter_ask_book_counselor")>>
               ELSE <<>>
        /\ events = <<>>

----------------------------------------------------------------------------
(* Properties of the mood canonicalizer, branch by branch *)

\* The renaming table of the express_ branch.
ExpressTable ==
    ("sadness" :> "depression") @@ ("stress" :> "stress_burnout") @@
    ("sleep" :> "sleep_insomnia") @@ ("relationship" :> "relationship_romance") @@
    ("low_self_esteem" :> "self_esteem_body")

\* C22: on an intent that begins with express_, only that leading prefix is
\* stripped; the remainder r is renamed by the table when the table has it and
\* returned exactly as r otherwise, later occurrences of express_ in r kept.
C22_ExpressPrefixStrippedOnce ==
    (Len(chain) >= 2 /\ StartsWith(chain[1], "express_"))
        => LET r == Drop(chain[1], Len("express_"))
           IN  chain[2] = IF r \in DOMAIN ExpressTable THEN ExpressTable[r] ELSE r

\* The base token of x: x without a trailing _p<digits>, when it has one.
BaseToken(x) ==
    IF NumericVariantBases(x) = {} THEN x
    ELSE SubSeq(x, 1, CHOOSE i \in NumericVariantBases(x) :
                          \A j \in NumericVariantBases(x) : i <= j)

\* The aliases that are a prefix of a token, by position in the alias list.
AliasHits(b) ==
    {i \in 1..Len(aliases) :
        Len(aliases[i][1]) <= Len(b) /\ SubSeq(b, 1, Len(aliases[i][1])) = aliases[i][1]}

\* C23: on an intent without the express_ prefix the first alias, in list
\* order, that is a prefix of the base token decides the mood; with no such
\* alias the base token is returned unchanged; no base token has two alias
\* prefixes that map to different moods.
C23_FirstAliasOrBaseToken ==
    (Len(chain) >= 2 /\ ~StartsWith(chain[1], "express_"))
        => LET b == BaseToken(chain[1])
               hits == AliasHits(b)
           IN  /\ \A i, j \in hits : aliases[i][2] = aliases[j][2]
               /\ chain[2] = IF hits = {} THEN b
                             ELSE aliases[CHOOSE i \in hits : \A j \in hits : i <= j][2]

----------------------------------------------------------------------------
(* Properties of the slot parsers: last date rule, keyword precedence, shape *)

\* parse_date reached its last rule: no keyword rule fired and the
\* collaborator gave no date.
LastDateRule ==
    /\ ParsedDate
    /\ call.value \notin KeywordDateTexts
    /\ call.fuzzy.kind \in {"absent", "raises", "null"}

\* C24 as stated: at its last rule parse_date returns the raw input text as it
\* is when the text resembles a date token, and no match otherwise.
C24_LastRuleReturnsRawText ==
    LastDateRule =>
        Gave(IF call.value \in DOMAIN DateLikeTokens THEN call.value ELSE None)

\* C24 amended: at its last rule parse_date returns the normalized text
\* (trimmed, lower-cased, lexicon words rewritten) when that text holds a date
\* token - digits separated by '/' or '-', or a word of three or more letters
\* followed by a 1-2 digit number - and no match otherwise ('unya', 'dec 255').
C24_LastRuleReturnsNormalizedText ==
    LastDateRule =>
        /\ Gave(IF call.value \in DOMAIN DateLikeTokens
                THEN DateLikeTokens[call.value] ELSE None)
        /\ call.value \in {Some("unya"), Some("dec 255"), Some("de 25"), Some("a12/25"),
                           Some("see you"), Some(""), None} => Gave(None)

C24_Witness ==
    /\ LastDateRule
    /\ call.value = Some("on DEC 5 ok")
    /\ call.fuzzy.kind = "null"
    /\ Gave(Some("on dec 5 ok"))

\* The Cebuano time keywords in table order, and the time each stands for.
KeywordRank ==
    ("buntag" :> 1) @@ ("hapon" :> 2) @@ ("udto" :> 3) @@ ("gabii" :> 4) @@ ("karon" :> 5)

KeywordTime(k) ==
    CASE k = "buntag" -> "09:00"
      [] k = "hapon" -> "15:00"
      [] k = "udto" -> "12:00"
      [] k = "gabii" -> "18:00"
      [] k = "karon" -> HHMM(call.now.hour, call.now.minute)

\* C25: a time text holding two Cebuano keywords parses to the time of the
\* one that comes first in table order (buntag, hapon, udto, gabii, karon),
\* wherever it stands in the text; a text holding one keyword parses to that
\* keyword's time.
C25_FirstTableEntryWins ==
    ParsedTime =>
        /\ \A a \in TimeKeywords : \A b \in TimeKeywords \ {a} :
               call.value = Some(a \o " o " \o b) =>
                   Gave(Some(KeywordTime(IF KeywordRank[a] < KeywordRank[b] THEN a ELSE b)))
        /\ \A k \in TimeKeywords :
               call.value \in {Some(k), Some("Sa " \o k \o " ")} => Gave(Some(KeywordTime(k)))

C25_Witness ==
    /\ ParsedTime
    /\ call.value = Some("gabii o udto")
    /\ Gave(Some("12:00"))

\* t is 'HH:MM' with HH in 00..23 and MM in 00..59.
WellFormedTime(t) == \E h \in 0..23, m \in 0..59 : t = HHMM(h, m)

\* C28: every result of parse_time other than no match is a well-formed
\* 24-hour 'HH:MM', 'alas N sa <part>' inputs with N >= 24 included.
C28_TimeResultsWellFormed ==
    (ParsedTime /\ ret.value # None) => (~ret.raised /\ WellFormedTime(ret.value[1]))

C28_Witness ==
    /\ ParsedTime
    /\ call.value = Some("alas 30 sa gabii")
    /\ Gave(Some("18:00"))

----------------------------------------------------------------------------
(* Properties of the analyze handler and of the mood slot across turns *)

AnalyzeRan == action = "action_analyze_issue"

\* C26: the analyze handler emits the support message (template or generic
\* text) first, then utter_offer_coping exactly when the store defines it, and
\* returns exactly one slot update, mood = the canonical mood of the current
\* intent, on every path.
C26_AnalyzeOutputShape ==
    AnalyzeRan =>
        /\ Len(dispatched) = (IF "utter_offer_coping" \in StoreKeys THEN 2 ELSE 1)
        /\ dispatched[1] \in {Text(SUPPORT_GENERIC_TEXT)} \cup
               {Response(MOOD_TO_SUPPORT_UTTER[m]) : m \in DOMAIN MOOD_TO_SUPPORT_UTTER}
        /\ Len(dispatched) = 2 => dispatched[2] = Response("utter_offer_coping")
        /\ events = <<SlotSet("mood", _canonical_mood_from_intent(IntentNow))>>

\* The coping message for mood m in the current store.
CopingMessageFor(m) ==
    IF m \in DOMAIN MOOD_TO_COPING_UTTER /\ ("utter_coping_" \o m) \in StoreKeys
    THEN Response("utter_coping_" \o m)
    ELSE Text(COPING_GENERIC_TEXT)

\* One step: the slot is written only by the analyze handler, which stores
\* the canonical mood of its intent over any earlier value, and is never
\* unset.
MoodWrittenOnlyByAnalysis ==
    /\ slots' # slots => action' = "action_analyze_issue"
    /\ (action' = "action_analyze_issue" /\ ~raised')
           => slots'.mood = Some(_canonical_mood_from_intent(OrEmpty(latest_message'.intent)))
    /\ slots.mood # None => slots'.mood # None

\* C29 as stated: the mood slot is written only by the analyze handler and
\* never unset; once it holds a mood m, every later coping turn uses m, not
\* the mood of its own intent; a later analysis turn overwrites it.
C29_CopingUsesPersistedMood ==
    [][/\ MoodWrittenOnlyByAnalysis
       /\ (action' = "action_give_coping" /\ slots'.mood # None)
              => (Len(dispatched') >= 1 /\ dispatched'[1] = CopingMessageFor(slots.mood[1]))]_vars

\* C29 amended: as above, for a non-empty mood m; an analysis turn without an
\* intent stores the empty mood, and a coping turn then uses the mood of its
\* own intent.
C29_CopingUsesNonEmptyPersistedMood ==
    [][/\ MoodWrittenOnlyByAnalysis
       /\ (action' = "action_give_coping" /\ slots'.mood \notin {None, Some("")})
              => (Len(dispatched') >= 1 /\ dispatched'[1] = CopingMessageFor(slots.mood[1]))
       /\ (action' = "action_give_coping" /\ slots'.mood = Some("") /\ domain.kind # "null")
              => (Len(dispatched') >= 1 /\ dispatched'[1] =
                      CopingMessageFor(_canonical_mood_from_intent(IntentNow)))]_vars

C29_Witness ==
    /\ CopingRan
    /\ slots.mood = Some("anxiety")
    /\ IntentNow = "express_sadness"
    /\ dispatched[1] = Response("utter_coping_anxiety")

----------------------------------------------------------------------------
(* Properties of the selector: who gets the crisis reply, and what decides *)

CrisisReplies == {Response("utter_crisis"), Text(SAFETY_TEXT)}

\* C27 as stated: when the intent is not exactly safety_critical and the text
\* holds no crisis phrase, the selector emits neither utter_crisis nor the
\* safety text, for every intent name and every store.
C27_CrisisReplyOnlyByOverride ==
    (SelectorRan /\ ~OverrideDue) =>
        \A i \in 1..Len(dispatched) : dispatched[i] \notin CrisisReplies

\* C27 amended: without the override the safety text is never emitted, and
\* utter_crisis is emitted only as the template of the intent itself: the
\* intent is 'crisis', or 'crisis/<variant>' whose own template the store
\* lacks, and the store defines utter_crisis.
C27_CrisisTemplateOnlyForCrisisIntent ==
    (SelectorRan /\ ~OverrideDue) =>
        \A i \in 1..Len(dispatched) :
            /\ dispatched[i] # Text(SAFETY_TEXT)
            /\ dispatched[i] = Response("utter_crisis")
                   <=> /\ BeforeFirstSlash(IntentNow) = "crisis"
                       /\ "utter_crisis" \in StoreKeys
                       /\ ("utter_" \o IntentNow) \in StoreKeys => IntentNow = "crisis"

C27_Witness ==
    /\ SelectorRan
    /\ ~OverrideDue
    /\ IntentNow = "crisis/p0007"
    /\ dispatched = <<Response("utter_crisis")>>

\* What intent name, raw text and store keys alone determine: the crisis reply
\* under the override, else the intent's template, its parent's, or the
\* generic text.
DirectiveOf(intent, crisis, keys) ==
    IF intent = "safety_critical" \/ crisis
    THEN (IF "utter_crisis" \in keys THEN Response("utter_crisis") ELSE Text(SAFETY_TEXT))
    ELSE IF ("utter_" \o intent) \in keys THEN Response("utter_" \o intent)
    ELSE IF ("utter_" \o BeforeFirstSlash(intent)) \in keys
    THEN Response("utter_" \o BeforeFirstSlash(intent))
    ELSE Text(GENERIC_TEXT)

\* C30: the selector's directive is a function of the intent name, the raw
\* text and the set of store keys alone, whatever the language tag, the slot
\* values and the earlier turns are.
C30_SelectorDeterminedByIntentTextKeys ==
    SelectorRan =>
        /\ ~raised
        /\ events = <<>>
        /\ dispatched = <<DirectiveOf(IntentNow, HasCrisisPhrase, StoreKeys)>>

C30_Witness ==
    /\ SelectorRan
    /\ slots.mood = Some("anxiety")
    /\ latest_message.lang = Some("ceb")
    /\ IntentNow = ""
    /\ "utter_anxiety" \in StoreKeys
    /\ dispatched = <<Text(GENERIC_TEXT)>>

----------------------------------------------------------------------------
(* Properties of two interleaved conversations *)

\* The first conversation's tracker and last run.
FirstConversation == <<latest_message, slots, action, dispatched, events, raised>>

\* One step of either conversation: the domain dict is left as it was, the
\* conversation that did not act is left as it was, and a handler run gives
\* what run() gives on that conversation's own tracker.
IsolatedStep ==
    /\ domain' = domain
    /\ other' # other => FirstConversation' = FirstConversation
    /\ FirstConversation' # FirstConversation => other' = other
    /\ (other' # other /\ other'.action # "none")
           => LET r == HandlerResult(other'.action,
                                     [latest_message |-> other.latest_message,
                                      slots |-> other.slots], domain)
              IN  /\ other'.dispatched = r.messages
                  /\ other'.events = r.events
                  /\ other'.slots = ApplyEvents(other.slots, r.events)
    /\ (FirstConversation' # FirstConversation /\ action' # "none")
           => LET r == HandlerResult(action', Tracker, domain)
              IN  /\ dispatched' = r.messages
                  /\ events' = r.events
                  /\ slots' = ApplyEvents(slots, r.events)

====
